---- MODULE Spec2Model ----
(***************************************************************************)
(* Recipe API: the recipe aggregate write path (recipe/serializers.py),    *)
(* the ownership-scoped views (recipe/views.py) and the relational store   *)
(* they write to.                                                          *)
(*                                                                         *)
(* A request is a record that carries its inputs, the handler's local      *)
(* variables, its position (pc) and its response.  Step executes one ORM   *)
(* statement of a request against the store; every ORM statement commits   *)
(* on its own, because neither the serializers nor the views open a        *)
(* transaction.  Spec runs every handler from start to finish in one       *)
(* action (requests served one after the other); ConcSpec interleaves the  *)
(* statements of two requests served at the same time.                     *)
(***************************************************************************)
EXTENDS Integers, Sequences, FiniteSets, TLC

VARIABLES recipes, tags, ingredients, seq, response, reqs, served, user_objects

vars == <<recipes, tags, ingredients, seq, response, reqs, served, user_objects>>

(***************************************************************************)
(* Bounds and input sets.                                                  *)
(***************************************************************************)
MaxRecipes == 2     \* Recipe rows ever inserted (identifiers 1..MaxRecipes)
MaxTags == 2        \* Tag rows ever inserted
MaxIngredients == 1 \* Ingredient rows ever inserted
MaxLen == 2         \* longest descriptor list of a request
MaxRequests == 2    \* requests served in a run of ConcSpec

Users == {"alice", "bob"}
TagNames == {1, 2}              \* names, ordered as strings are
IngredientNames == {1}
Titles == {"soup", "stew"}
Absent == "absent"              \* a key the request body does not hold
Slots == {1, 2}                 \* requests served at the same time

Range(s) == {s[i] : i \in 1..Len(s)}

\* The descriptor lists [{name: ...}, ...] over a set of names.
Descriptors(names) == UNION {[1..n -> names] : n \in 0..MaxLen}

\* A key of the body that holds a list: there with a value, or not there.
NoList == [present |-> FALSE, value |-> <<>>]

Lists(names) ==
    {NoList} \cup {[present |-> TRUE, value |-> d] : d \in Descriptors(names)}

MaxRows(kind) == IF kind = "tags" THEN MaxTags ELSE MaxIngredients

NoBody == [id |-> 0, title |-> Absent, tags |-> {}, ingredients |-> {}]

(***************************************************************************)
(* The store: the three tables and their auto-increment sequences.  The    *)
(* many-to-many rows of a Recipe are kept with the Recipe as the sets      *)
(* tags and ingredients of identifiers.                                    *)
(***************************************************************************)
DB == [recipes |-> recipes, tags |-> tags, ingredients |-> ingredients,
       seq |-> seq]

NoRows == [i \in {} |-> 0]

EmptyDB == [recipes |-> NoRows, tags |-> NoRows, ingredients |-> NoRows,
            seq |-> [recipes |-> 0, tags |-> 0, ingredients |-> 0]]

\* The User table, by email: no row.
NoUsers == [e \in {} |-> 0]

Put(f, k, v) == [x \in DOMAIN f \cup {k} |-> IF x = k THEN v ELSE f[x]]

Drop(f, k) == [x \in DOMAIN f \ {k} |-> f[x]]

(***************************************************************************)
(* A request: inputs, handler locals, position, response.                  *)
(***************************************************************************)
Request(op, user, rid, title, userField, tgs, ings, assigned) ==
    [op |-> op, user |-> user, rid |-> rid, title |-> title,
     userField |-> userField, tags |-> tgs, ingredients |-> ings,
     assigned |-> assigned, name |-> Absent,
     pc |-> "start", kind |-> "tags", inst |-> 0, instTitle |-> Absent,
     instUser |-> Absent, todo |-> <<>>, cur |-> 0, retried |-> FALSE,
     made |-> {},
     status |-> 0, body |-> NoBody, list |-> <<>>]

Idle == [Request("none", Absent, 0, Absent, Absent, NoList, NoList, FALSE)
            EXCEPT !.pc = "idle"]

Out(db, r) == [db |-> db, req |-> r]

Finish(db, r, code) == Out(db, [r EXCEPT !.pc = "done", !.status = code])

(***************************************************************************)
(* recipe/views.py                                                         *)
(***************************************************************************)
\* permission_classes = [AllowAny]: a request without a credential goes on.
AllowAny(r) == TRUE

\* authentication_classes = [TokenAuthentication] with permission_classes =
\* [IsAuthenticated]: the request carries the token of a user.
IsAuthenticated(r) == r.user \in Users

\* get_queryset without filter(user=...): every Recipe row.
get_queryset_unscoped(db, user) == DOMAIN db.recipes

\* RecipeViewSet.get_queryset: the Recipe rows of the authenticated user.
get_queryset(db, user) ==
    {i \in DOMAIN db.recipes : db.recipes[i].user = user}

RECURSIVE OrderByIdAsc(_)
\* order_by('id'): least identifier first.
OrderByIdAsc(ids) ==
    IF ids = {} THEN <<>>
    ELSE LET top == CHOOSE i \in ids : \A j \in ids : i <= j
         IN <<top>> \o OrderByIdAsc(ids \ {top})

RECURSIVE OrderByIdDesc(_)
\* order_by('-id'): greatest identifier first.
OrderByIdDesc(ids) ==
    IF ids = {} THEN <<>>
    ELSE LET top == CHOOSE i \in ids : \A j \in ids : i >= j
         IN <<top>> \o OrderByIdDesc(ids \ {top})

RECURSIVE OrderByNameAsc(_, _)
\* order_by('name'): least name first.
OrderByNameAsc(table, ids) ==
    IF ids = {} THEN <<>>
    ELSE LET top == CHOOSE i \in ids : \A j \in ids :
                        \/ table[i].name < table[j].name
                        \/ table[i].name = table[j].name /\ i <= j
         IN <<top>> \o OrderByNameAsc(table, ids \ {top})

RECURSIVE OrderByNameDesc(_, _)
\* order_by('-name'): greatest name first (rows of equal name by identifier).
OrderByNameDesc(table, ids) ==
    IF ids = {} THEN <<>>
    ELSE LET top == CHOOSE i \in ids : \A j \in ids :
                        \/ table[i].name > table[j].name
                        \/ table[i].name = table[j].name /\ i <= j
         IN <<top>> \o OrderByNameDesc(table, ids \ {top})

RECURSIVE Repeat(_, _)
Repeat(x, n) == IF n = 0 THEN <<>> ELSE <<x>> \o Repeat(x, n - 1)

RECURSIVE Flatten(_)
Flatten(ss) == IF ss = <<>> THEN <<>> ELSE Head(ss) \o Flatten(Tail(ss))

\* get_queryset as a join with the recipes (filter(recipe__isnull=False)
\* when assigned_only is set) that leaves out distinct(): one row of the
\* result for every Recipe a Tag is attached to.
attrs_get_queryset_join(db, kind, user, assigned) ==
    LET own == OrderByNameDesc(db[kind],
                   {i \in DOMAIN db[kind] : db[kind][i].user = user})
        uses(i) == Cardinality({x \in DOMAIN db.recipes :
                                   i \in db.recipes[x][kind]})
    IN IF assigned
       THEN Flatten([k \in 1..Len(own) |-> Repeat(own[k], uses(own[k]))])
       ELSE own

\* get_queryset without filter(user=...): every row of the table.
attrs_get_queryset_unscoped(db, kind, user, assigned) ==
    OrderByNameDesc(db[kind], DOMAIN db[kind])

\* BaseRecipeAttrsViewSet.get_queryset: the caller's Tag (Ingredient) rows,
\* by name descending.  The request's assigned_only parameter is not read.
attrs_get_queryset(db, kind, user, assigned) ==
    OrderByNameDesc(db[kind],
                    {i \in DOMAIN db[kind] : db[kind][i].user = user})

(***************************************************************************)
(* recipe/serializers.py                                                   *)
(***************************************************************************)
\* Meta.fields with 'user' among them: a supplied user is written.
validated_data_user_writable(r) == [title |-> r.title, user |-> r.userField]

\* RecipeSerializer.Meta.fields: the scalar keys of the body the serializer
\* keeps; 'user' is not a field, so a supplied user never gets through.
validated_data(r) == [title |-> r.title, user |-> Absent]

\* create that never pops the key: the descriptors are dropped.
create_pop_dropped(r, kind) == <<>>

\* create: validated_data.pop(kind, []).
create_pop(r, kind) == IF r[kind].present THEN r[kind].value ELSE <<>>

\* update with pop(kind, []): a key that is not there counts as the empty list.
update_pop_default_empty(r, kind) ==
    [present |-> TRUE, value |-> r[kind].value]

\* update: validated_data.pop(kind, None); present is "is not None".
update_pop(r, kind) == r[kind]

\* create in place of get_or_create: no row is ever looked up.
Lookup_none(table, user, name) == {}

\* get_or_create(**descriptor) without user=auth_user: any owner's row.
Lookup_any_owner(table, user, name) ==
    {i \in DOMAIN table : table[i].name = name}

\* The lookup of get_or_create(user=auth_user, **descriptor).
Lookup(table, user, name) ==
    {i \in DOMAIN table : table[i].user = user /\ table[i].name = name}

\* A store without the guarantee: every row goes in.
unique_owner_name_unchecked(table, user, name) == TRUE

\* The store's uniqueness guarantee on (owner, name): may this row go in?
unique_owner_name(table, user, name) ==
    \A i \in DOMAIN table : ~(table[i].user = user /\ table[i].name = name)

\* A hand-written get-then-create: the IntegrityError goes up as a 500.
on_integrity_error_raise(r) == [r EXCEPT !.pc = "done", !.status = 500]

\* get_or_create, on the IntegrityError of its insert: fetch the row again.
on_integrity_error(r) == [r EXCEPT !.pc = "reget", !.retried = TRUE]

\* The ingredient part of create / update, entered when the tag part is over.
EnterIngredients(r) ==
    IF r.op = "create"
    THEN LET t == create_pop(r, "ingredients")
         IN [r EXCEPT !.kind = "ingredients", !.todo = t,
                      !.pc = IF t # <<>> THEN "get" ELSE "respond"]
    ELSE IF update_pop(r, "ingredients").present
         THEN [r EXCEPT !.kind = "ingredients", !.pc = "clear"]
         ELSE [r EXCEPT !.pc = "save"]

\* The for loop of _get_or_create_tag / _get_or_create_ingredient: the next
\* descriptor, or what follows the loop.
Advance(r) ==
    IF r.todo # <<>> THEN [r EXCEPT !.pc = "get"]
    ELSE IF r.kind = "tags" THEN EnterIngredients(r)
    ELSE [r EXCEPT !.pc = IF r.op = "create" THEN "respond" ELSE "save"]

\* POST /recipes/: validation, then perform_create and the first statement of
\* create, Recipe.objects.create(user=request.user, **validated_data).
StartCreate(db, r) ==
    IF validated_data(r).title = Absent THEN Finish(db, r, 400)
    ELSE IF db.seq.recipes >= MaxRecipes THEN Out(db, [r EXCEPT !.pc = "capped"])
    ELSE LET id == db.seq.recipes + 1
             row == [user |-> r.user, title |-> validated_data(r).title,
                     tags |-> {}, ingredients |-> {}]
         IN Out([db EXCEPT !.recipes = Put(@, id, row), !.seq.recipes = id],
                Advance([r EXCEPT !.inst = id, !.instTitle = row.title,
                                  !.instUser = r.user, !.kind = "tags",
                                  !.todo = create_pop(r, "tags")]))

\* PATCH / PUT /recipes/{id}/: get_object over get_queryset (404), then
\* validation (PUT requires the title), then the head of update.
StartUpdate(db, r) ==
    IF r.rid \notin get_queryset(db, r.user) THEN Finish(db, r, 404)
    ELSE IF r.op = "put" /\ validated_data(r).title = Absent
    THEN Finish(db, r, 400)
    ELSE LET i == [r EXCEPT !.inst = r.rid,
                            !.instTitle = db.recipes[r.rid].title,
                            !.instUser = db.recipes[r.rid].user]
         IN Out(db, IF update_pop(r, "tags").present
                    THEN [i EXCEPT !.kind = "tags", !.pc = "clear"]
                    ELSE EnterIngredients(i))

\* update without the clear(): the descriptors are added to what is there.
Clear_skipped(db, r) ==
    Out(db, Advance([r EXCEPT !.todo = update_pop(r, r.kind).value]))

\* instance.tags.clear() / instance.ingredients.clear().
Clear(db, r) ==
    Out(IF r.inst \in DOMAIN db.recipes
        THEN [db EXCEPT !.recipes[r.inst][r.kind] = {}] ELSE db,
        Advance([r EXCEPT !.todo = update_pop(r, r.kind).value]))

\* get_or_create, first statement: get(user=auth_user, name=...).
Get(db, r) ==
    LET m == Lookup(db[r.kind], r.user, Head(r.todo))
    IN IF Cardinality(m) = 1
       THEN Out(db, [r EXCEPT !.cur = CHOOSE i \in m : TRUE, !.pc = "add"])
       ELSE IF m = {} THEN Out(db, [r EXCEPT !.pc = "insert"])
       ELSE Finish(db, r, 500)

\* get_or_create, after DoesNotExist: create(user=auth_user, name=...).
Insert(db, r) ==
    IF ~unique_owner_name(db[r.kind], r.user, Head(r.todo))
    THEN Out(db, on_integrity_error(r))
    ELSE IF db.seq[r.kind] >= MaxRows(r.kind) THEN Out(db, [r EXCEPT !.pc = "capped"])
    ELSE LET id == db.seq[r.kind] + 1
         IN Out([db EXCEPT ![r.kind] = Put(@, id, [user |-> r.user,
                                                   name |-> Head(r.todo)]),
                           !.seq[r.kind] = id],
                [r EXCEPT !.cur = id, !.pc = "add",
                          !.made = @ \cup {<<r.kind, id>>}])

\* get_or_create, after IntegrityError: get again, or raise.
Reget(db, r) ==
    LET m == Lookup(db[r.kind], r.user, Head(r.todo))
    IN IF Cardinality(m) = 1
       THEN Out(db, [r EXCEPT !.cur = CHOOSE i \in m : TRUE, !.pc = "add"])
       ELSE Finish(db, r, 500)

\* recipe.tags.add(tag_obj): the row of the many-to-many table; both ends
\* must exist (foreign keys), or the statement raises IntegrityError.
Add(db, r) ==
    IF r.inst \notin DOMAIN db.recipes \/ r.cur \notin DOMAIN db[r.kind]
    THEN Finish(db, r, 500)
    ELSE Out([db EXCEPT !.recipes[r.inst][r.kind] = @ \cup {r.cur}],
             Advance([r EXCEPT !.todo = Tail(r.todo)]))

\* update: setattr for every validated item, then instance.save(), which
\* writes the instance's columns (and inserts the row if it is gone).
Save(db, r) ==
    LET vd == validated_data(r)
        t == IF vd.title # Absent THEN vd.title ELSE r.instTitle
        u == IF vd.user # Absent THEN vd.user ELSE r.instUser
        rows == IF r.inst \in DOMAIN db.recipes
                THEN [db.recipes EXCEPT ![r.inst].title = t, ![r.inst].user = u]
                ELSE Put(db.recipes, r.inst,
                         [user |-> u, title |-> t, tags |-> {},
                          ingredients |-> {}])
    IN Out([db EXCEPT !.recipes = rows],
           [r EXCEPT !.instTitle = t, !.instUser = u, !.pc = "respond"])

\* serializer.data of the written instance: 201 for create, 200 for update.
Respond(db, r) ==
    LET live == r.inst \in DOMAIN db.recipes
    IN Finish(db,
              [r EXCEPT !.body = [id |-> r.inst, title |-> r.instTitle,
                   tags |-> IF live THEN db.recipes[r.inst].tags ELSE {},
                   ingredients |-> IF live THEN db.recipes[r.inst].ingredients
                                   ELSE {}]],
              IF r.op = "create" THEN 201 ELSE 200)

\* GET /recipes/{id}/.
Retrieve(db, r) ==
    IF r.rid \notin get_queryset(db, r.user) THEN Finish(db, r, 404)
    ELSE Finish(db, [r EXCEPT !.body = [id |-> r.rid,
                         title |-> db.recipes[r.rid].title,
                         tags |-> db.recipes[r.rid].tags,
                         ingredients |-> db.recipes[r.rid].ingredients]], 200)

\* A delete that cascades to the Tag and Ingredient rows of the Recipe.
Destroy_cascade(db, r) ==
    IF r.rid \notin get_queryset(db, r.user) THEN Finish(db, r, 404)
    ELSE LET gone == db.recipes[r.rid]
             left == Drop(db.recipes, r.rid)
         IN Finish([db EXCEPT
                       !.recipes = [i \in DOMAIN left |->
                           [left[i] EXCEPT
                               !.tags = @ \ gone.tags,
                               !.ingredients = @ \ gone.ingredients]],
                       !.tags = [i \in DOMAIN @ \ gone.tags |-> @[i]],
                       !.ingredients =
                           [i \in DOMAIN @ \ gone.ingredients |-> @[i]]],
                   r, 204)

\* DELETE /recipes/{id}/: the row and its many-to-many rows.
Destroy(db, r) ==
    IF r.rid \notin get_queryset(db, r.user) THEN Finish(db, r, 404)
    ELSE Finish([db EXCEPT !.recipes = Drop(@, r.rid)], r, 204)

\* GET /tags/ and GET /ingredients/.
ListAttrs(db, r, kind) ==
    Finish(db, [r EXCEPT !.list = attrs_get_queryset(db, kind, r.user,
                                                     r.assigned)], 200)

\* DELETE /tags/{id}/ and /ingredients/{id}/: the row, and by cascade its
\* many-to-many rows.
DestroyAttr(db, r, kind) ==
    IF r.rid \notin Range(attrs_get_queryset(db, kind, r.user, FALSE))
    THEN Finish(db, r, 404)
    ELSE Finish([db EXCEPT ![kind] = Drop(@, r.rid),
                           !.recipes = [i \in DOMAIN @ |->
                               [@[i] EXCEPT ![kind] = @ \ {r.rid}]]],
                r, 204)

\* GET /recipes/: the caller's Recipes, greatest identifier first.
ListRecipes(db, r) ==
    Finish(db, [r EXCEPT !.list = OrderByIdDesc(get_queryset(db, r.user))],
           200)

\* PATCH /tags/{id}/ and /ingredients/{id}/: get_object over get_queryset.
StartUpdateAttr(db, r, kind) ==
    IF r.rid \notin Range(attrs_get_queryset(db, kind, r.user, r.assigned))
    THEN Finish(db, r, 404)
    ELSE Out(db, [r EXCEPT !.kind = kind, !.cur = r.rid,
                           !.instUser = db[kind][r.rid].user,
                           !.pc = "save_attr"])

\* PATCH /tags/{id}/: serializer.save() writes the name (and inserts the row
\* if it is gone); the store refuses a name the owner has on another row.
SaveAttr(db, r) ==
    LET others == IF r.cur \in DOMAIN db[r.kind]
                  THEN Drop(db[r.kind], r.cur) ELSE db[r.kind]
    IN IF ~unique_owner_name(others, r.instUser, r.name)
       THEN Finish(db, r, 500)
       ELSE Finish([db EXCEPT ![r.kind] = Put(@, r.cur,
                                   [user |-> r.instUser, name |-> r.name])],
                   r, 200)

\* The handler a request is dispatched to, and the statements that follow.
Dispatch(db, r) ==
    CASE r.pc = "start" /\ r.op = "create" -> StartCreate(db, r)
      [] r.pc = "start" /\ r.op \in {"patch", "put"} -> StartUpdate(db, r)
      [] r.pc = "start" /\ r.op = "detail" -> Retrieve(db, r)
      [] r.pc = "start" /\ r.op = "delete" -> Destroy(db, r)
      [] r.pc = "start" /\ r.op = "tag_list" -> ListAttrs(db, r, "tags")
      [] r.pc = "start" /\ r.op = "ingredient_list" ->
             ListAttrs(db, r, "ingredients")
      [] r.pc = "start" /\ r.op = "tag_delete" -> DestroyAttr(db, r, "tags")
      [] r.pc = "start" /\ r.op = "ingredient_delete" ->
             DestroyAttr(db, r, "ingredients")
      [] r.pc = "clear" -> Clear(db, r)
      [] r.pc = "get" -> Get(db, r)
      [] r.pc = "insert" -> Insert(db, r)
      [] r.pc = "reget" -> Reget(db, r)
      [] r.pc = "add" -> Add(db, r)
      [] r.pc = "save" -> Save(db, r)
      [] r.pc = "respond" -> Respond(db, r)
      [] r.pc = "start" /\ r.op = "list" -> ListRecipes(db, r)
      [] r.pc = "start" /\ r.op = "tag_update" ->
             StartUpdateAttr(db, r, "tags")
      [] r.pc = "start" /\ r.op = "ingredient_update" ->
             StartUpdateAttr(db, r, "ingredients")
      [] r.pc = "save_attr" -> SaveAttr(db, r)

\* One statement of request r against the store db; the first thing of every
\* handler is the permission check, answered 401 without a credential.
Step(db, r) ==
    IF r.pc = "start" /\ ~IsAuthenticated(r) THEN Finish(db, r, 401)
    ELSE Dispatch(db, r)

RECURSIVE Run(_)
\* The whole handler: the statements of a request, one after the other, to
\* the end (o is the store and the request, as Step returns them).
Run(o) ==
    IF o.req.pc \in {"done", "capped"} THEN o ELSE Run(Step(o.db, o.req))

(***************************************************************************)
(* The requests a client sends.                                            *)
(***************************************************************************)
Other(u) == CHOOSE v \in Users : v # u

\* Bodies with a title key (or none) and any tags and ingredients keys.
ListBodies(op, users, rids, titles) ==
    {Request(op, u, rid, t, Absent, tg, ig, FALSE) :
        u \in users, rid \in rids, t \in titles,
        tg \in Lists(TagNames), ig \in Lists(IngredientNames)}

\* Bodies of scalar keys alone, a user key naming the other user among them.
ScalarBodies(op, users, rids, titles) ==
    UNION {{Request(op, u, rid, t, uf, NoList, NoList, FALSE) :
               rid \in rids, t \in titles, uf \in {Absent, Other(u)}} :
           u \in users}

\* Requests that name a row and hold no body.
RowRequests(op, users, rids) ==
    {Request(op, u, rid, Absent, Absent, NoList, NoList, FALSE) :
        u \in users, rid \in rids}

ListRequests(op, users) ==
    {Request(op, u, 0, Absent, Absent, NoList, NoList, a) :
        u \in users, a \in BOOLEAN}

\* PATCH /tags/{id}/ {name}: requests that rename a row.
RenameRequests(op, users, rids, names) ==
    {[Request(op, u, rid, Absent, Absent, NoList, NoList, FALSE)
         EXCEPT !.name = n] : u \in users, rid \in rids, n \in names}

\* The same request without a valid credential: no user comes with it.
Anonymous(r) == [r EXCEPT !.user = Absent]

RecipeIds == 1..MaxRecipes

(***************************************************************************)
(* Requests served one after the other: every action is a whole handler.   *)
(***************************************************************************)
Init ==
    /\ recipes = EmptyDB.recipes
    /\ tags = EmptyDB.tags
    /\ ingredients = EmptyDB.ingredients
    /\ seq = EmptyDB.seq
    /\ response = Idle
    /\ reqs = [s \in Slots |-> Idle]
    /\ served = 0
    /\ user_objects = NoUsers

Commit(db) ==
    /\ recipes' = db.recipes
    /\ tags' = db.tags
    /\ ingredients' = db.ingredients
    /\ seq' = db.seq

\* What is kept of a served request: the request line and the response, and
\* the body if the serializer accepted it (a 404 or 400 comes before that).
Exchange(r) ==
    IF r.status \in {400, 401, 404}
    THEN [r EXCEPT !.title = Absent, !.userField = Absent, !.tags = NoList,
                   !.ingredients = NoList, !.name = Absent]
    ELSE r

Handle(r) ==
    \E o \in {Run(Out(DB, r))} :
        /\ o.req.pc = "done"
        /\ Commit(o.db)
        /\ response' = Exchange(o.req)
        /\ UNCHANGED <<reqs, served, user_objects>>

CreateRequests ==
    ListBodies("create", Users, {0}, {"soup"})
        \cup ScalarBodies("create", Users, {0}, {Absent})

PatchRequests ==
    ListBodies("patch", Users, RecipeIds, {Absent, "stew"})
        \cup ScalarBodies("patch", Users, RecipeIds, {Absent, "stew"})

PutRequests ==
    {b \in ListBodies("put", Users, RecipeIds, {Absent, "soup"}) :
        ~b.ingredients.present}

\* POST /recipes/
CreateRecipe ==
    /\ response = Idle
    /\ \E r \in CreateRequests : Handle(r)

\* PATCH /recipes/{id}/
PartialUpdateRecipe ==
    /\ response = Idle
    /\ \E r \in PatchRequests : Handle(r)

\* PUT /recipes/{id}/
UpdateRecipe ==
    /\ response = Idle
    /\ \E r \in PutRequests : Handle(r)

\* GET /recipes/{id}/
RetrieveRecipe ==
    /\ response = Idle
    /\ \E r \in RowRequests("detail", Users, RecipeIds) : Handle(r)

\* DELETE /recipes/{id}/
DestroyRecipe ==
    /\ response = Idle
    /\ \E r \in RowRequests("delete", Users, RecipeIds) : Handle(r)

\* GET /tags/
ListTags ==
    /\ response = Idle
    /\ \E r \in ListRequests("tag_list", Users) : Handle(r)

\* GET /ingredients/
ListIngredients ==
    /\ response = Idle
    /\ \E r \in ListRequests("ingredient_list", Users) : Handle(r)

\* DELETE /tags/{id}/
DestroyTag ==
    /\ response = Idle
    /\ \E r \in RowRequests("tag_delete", Users, 1..MaxTags) : Handle(r)

\* DELETE /ingredients/{id}/
DestroyIngredient ==
    /\ response = Idle
    /\ \E r \in RowRequests("ingredient_delete", Users, 1..MaxIngredients) :
           Handle(r)

\* GET /recipes/
ListRecipe ==
    /\ response = Idle
    /\ \E r \in RowRequests("list", Users, {0}) : Handle(r)

\* PATCH /tags/{id}/
UpdateTag ==
    /\ response = Idle
    /\ \E r \in RenameRequests("tag_update", Users, 1..MaxTags, TagNames) :
           Handle(r)

\* PATCH /ingredients/{id}/
UpdateIngredient ==
    /\ response = Idle
    /\ \E r \in RenameRequests("ingredient_update", Users,
                                1..MaxIngredients, IngredientNames) :
           Handle(r)

\* The requests of every endpoint, sent without a valid credential.
AnonymousRequests ==
    {Anonymous(r) :
        r \in {b \in CreateRequests : b.tags.value = <<1>>
                                         /\ ~b.ingredients.present}
            \cup ScalarBodies("patch", {"alice"}, RecipeIds, {"stew"})
            \cup RowRequests("detail", {"alice"}, RecipeIds)
            \cup RowRequests("delete", {"alice"}, RecipeIds)
            \cup RowRequests("list", {"alice"}, {0})
            \cup ListRequests("tag_list", {"alice"})
            \cup RowRequests("tag_delete", {"alice"}, 1..MaxTags)
            \cup RenameRequests("tag_update", {"alice"}, 1..MaxTags, {2})
            \cup ListRequests("ingredient_list", {"alice"})
            \cup RowRequests("ingredient_delete", {"alice"},
                             1..MaxIngredients)}

\* Any endpoint, no valid credential
Unauthenticated ==
    /\ response = Idle
    /\ \E r \in AnonymousRequests : Handle(r)

\* The response is sent; the next request may come.
Close ==
    /\ response # Idle
    /\ response' = Idle
    /\ UNCHANGED <<recipes, tags, ingredients, seq, reqs, served, user_objects>>

Next ==
    \/ CreateRecipe
    \/ PartialUpdateRecipe
    \/ UpdateRecipe
    \/ RetrieveRecipe
    \/ DestroyRecipe
    \/ ListTags
    \/ ListIngredients
    \/ DestroyTag
    \/ DestroyIngredient
    \/ ListRecipe
    \/ UpdateTag
    \/ UpdateIngredient
    \/ Unauthenticated
    \/ Close

Spec == Init /\ [][Next]_vars

(***************************************************************************)
(* Requests served at the same time: every action is one ORM statement of  *)
(* one request, and the statements of the requests in flight interleave.   *)
(***************************************************************************)
ConcRequests ==
    {b \in CreateRequests \cup PatchRequests :
        /\ b.userField = Absent
        /\ b.title # "stew"
        /\ b.ingredients.value # <<1, 1>>}
    \cup RowRequests("delete", Users, RecipeIds)
    \cup RowRequests("tag_delete", Users, 1..MaxTags)
    \cup RowRequests("ingredient_delete", Users, 1..MaxIngredients)

\* A request arrives and a handler takes it.
Begin(s) ==
    /\ reqs[s].pc = "idle"
    /\ \A t \in Slots : t < s => reqs[t].pc # "idle"
    /\ served < MaxRequests
    /\ \E r \in ConcRequests : reqs' = [reqs EXCEPT ![s] = r]
    /\ served' = served + 1
    /\ UNCHANGED <<recipes, tags, ingredients, seq, response, user_objects>>

\* The handler of slot s executes its next statement.
Statement(s) ==
    /\ reqs[s].pc \notin {"idle", "done"}
    /\ \E o \in {Step(DB, reqs[s])} :
          /\ o.req.pc # "capped"
          /\ Commit(o.db)
          /\ reqs' = [reqs EXCEPT ![s] = o.req]
    /\ UNCHANGED <<response, served, user_objects>>

\* Every request in flight is answered; the handlers are free again.
Drain ==
    /\ \A s \in Slots : reqs[s].pc \in {"idle", "done"}
    /\ \E s \in Slots : reqs[s].pc = "done"
    /\ reqs' = [s \in Slots |-> Idle]
    /\ UNCHANGED <<recipes, tags, ingredients, seq, response, served, user_objects>>

ConcNext ==
    \/ \E s \in Slots : Begin(s)
    \/ \E s \in Slots : Statement(s)
    \/ Drain

ConcSpec == Init /\ [][ConcNext]_vars

(***************************************************************************)
(* The users: registration through POST /users/create/ and the manager's   *)
(* create_user.                                                            *)
(***************************************************************************)
Locals == {"a", "B", "c"}
Domains == {"example.com", "EXAMPLE.com"}
FullNames == {"Ann", "Bea"}

\* An email is its local part and its domain; the empty string has neither.
NoEmail == [local |-> "", domain |-> ""]

Emails == {NoEmail} \cup [local : Locals, domain : Domains]

Lower(d) == IF d = "EXAMPLE.com" THEN "example.com" ELSE d

\* normalize_email: the domain in lower case, the local part as it is.
normalize_email(e) == [e EXCEPT !.domain = Lower(@)]

\* A create_user that takes any email, the empty one too.
create_user_unchecked(table, email, name) ==
    [raised |-> "", table |-> Put(table, normalize_email(email),
                                  [name |-> name])]

\* UserManager.create_user: ValueError without an email; the email is
\* unique in the table.
create_user(table, email, name) ==
    IF email = NoEmail THEN [raised |-> "ValueError", table |-> table]
    ELSE IF normalize_email(email) \in DOMAIN table
    THEN [raised |-> "IntegrityError", table |-> table]
    ELSE [raised |-> "", table |-> Put(table, normalize_email(email),
                                       [name |-> name])]

\* UserSerializer validation: the email is there and is not registered.
is_valid(table, email) ==
    email # NoEmail /\ normalize_email(email) \notin DOMAIN table

Answer(op, email, status, raised) ==
    [op |-> op, pc |-> "done", email |-> email, status |-> status,
     raised |-> raised]

\* POST /users/create/
RegisterUser ==
    /\ response = Idle
    /\ \E e \in Emails, n \in FullNames :
          IF ~is_valid(user_objects, e)
          THEN /\ response' = Answer("register", e, 400, "")
               /\ UNCHANGED user_objects
          ELSE \E o \in {create_user(user_objects, e, n)} :
                  /\ user_objects' = o.table
                  /\ response' = Answer("register", e,
                                        IF o.raised = "" THEN 201 ELSE 500,
                                        o.raised)
    /\ UNCHANGED <<recipes, tags, ingredients, seq, reqs, served>>

\* get_user_model().objects.create_user(email, password)
CreateUser ==
    /\ response = Idle
    /\ \E e \in Emails, n \in FullNames :
       \E o \in {create_user(user_objects, e, n)} :
          /\ user_objects' = o.table
          /\ response' = Answer("create_user", e, 0, o.raised)
    /\ UNCHANGED <<recipes, tags, ingredients, seq, reqs, served>>

UserNext ==
    \/ RegisterUser
    \/ CreateUser
    \/ Close

UserSpec == Init /\ [][UserNext]_vars

(***************************************************************************)
(* Properties.  In Spec, response' is the request the step served: a step  *)
(* that is not Close serves exactly one request and leaves it in           *)
(* response.                                                               *)
(***************************************************************************)
Kinds == {"tags", "ingredients"}

Table(kind) == IF kind = "tags" THEN tags ELSE ingredients

\* The rows of a table with this owner and this name.
Rows(table, user, name) ==
    {i \in DOMAIN table : table[i] = [user |-> user, name |-> name]}

RecipeWrites == {"create", "patch", "put"}

OnRecipe == {"patch", "put", "delete", "detail"}

\* C1: a PATCH, PUT, DELETE or detail GET by a user on a Recipe another user
\* owns is answered 404 with none of the Recipe's data, and leaves the
\* Recipe rows, their tag and ingredient sets and both tables as they were.
C1_OtherUsersRecipeIsNotFound ==
    [][LET q == response'
       IN (/\ q.pc = "done"
           /\ q.op \in OnRecipe
           /\ q.user \in Users
           /\ q.rid \in DOMAIN recipes
           /\ recipes[q.rid].user # q.user)
          => /\ q.status = 404
             /\ q.body = NoBody
             /\ recipes' = recipes
             /\ tags' = tags
             /\ ingredients' = ingredients]_vars

C1_Witness ==
    /\ response.pc = "done"
    /\ response.op = "patch"
    /\ response.status = 404
    /\ response.rid \in DOMAIN recipes
    /\ recipes[response.rid].user # response.user
    /\ recipes[response.rid].tags # {}

\* C2: a recipe create or update that names a Tag (Ingredient) succeeds, and
\* afterwards the caller owns exactly one row of that name, which is attached
\* to the Recipe; a row of that name the caller owned before is that row.
\* This covers a name twice in one list and a name of an earlier request.
C2_SameNameSameRecord ==
    [][LET q == response'
       IN (/\ q.pc = "done"
           /\ q.op \in RecipeWrites
           /\ q.status \notin {400, 401, 404})
          => /\ q.status \in {200, 201}
             /\ \A kind \in Kinds : \A n \in Range(q[kind].value) :
                   LET before == Rows(Table(kind), q.user, n)
                       after == Rows(Table(kind)', q.user, n)
                   IN /\ Cardinality(after) = 1
                      /\ before # {} => after = before
                      /\ after \subseteq recipes'[q.inst][kind]]_vars

C2_Witness ==
    /\ response.pc = "done"
    /\ response.op = "create"
    /\ response.status = 201
    /\ response.tags.value = <<1, 1>>
    /\ Cardinality(recipes[response.inst].tags) = 1
    /\ \E i \in DOMAIN recipes :
          /\ i < response.inst
          /\ recipes[i].tags = recipes[response.inst].tags

\* C5: an update by the owner that holds the tags key leaves the Recipe with
\* exactly the caller's rows of the names in the list, one row for each name
\* (none for the empty list); the same for the ingredients key.
C5_SuppliedKeyReplacesTheSet ==
    [][LET q == response'
       IN (q.pc = "done" /\ q.op \in {"patch", "put"} /\ q.status = 200)
          => \A kind \in Kinds :
                q[kind].present =>
                   LET named == {i \in DOMAIN Table(kind)' :
                                    /\ Table(kind)'[i].user = q.user
                                    /\ Table(kind)'[i].name
                                           \in Range(q[kind].value)}
                   IN /\ recipes'[q.rid][kind] = named
                      /\ Cardinality(named)
                             = Cardinality(Range(q[kind].value))]_vars

C5_Witness ==
    /\ response.pc = "done"
    /\ response.op = "patch"
    /\ response.status = 200
    /\ response.tags = [present |-> TRUE, value |-> <<2>>]
    /\ Rows(tags, response.user, 1) # {}
    /\ recipes[response.rid].tags = Rows(tags, response.user, 2)
    /\ \E i \in DOMAIN recipes :
          /\ i # response.rid
          /\ recipes[i].tags = Rows(tags, response.user, 1)

\* C6: an update without the tags key leaves the Recipe's tag set and the
\* Tag table as they were; the same for the ingredients key, so an update
\* with one of the keys leaves the other relation and its table alone.
C6_AbsentKeyLeavesTheSet ==
    [][LET q == response'
       IN (q.pc = "done" /\ q.op \in {"patch", "put"} /\ q.status = 200)
          => \A kind \in Kinds :
                ~q[kind].present =>
                   /\ recipes'[q.rid][kind] = recipes[q.rid][kind]
                   /\ Table(kind)' = Table(kind)]_vars

C6_Witness ==
    /\ response.pc = "done"
    /\ response.op = "patch"
    /\ response.status = 200
    /\ ~response.tags.present
    /\ response.ingredients.present
    /\ recipes[response.rid].tags # {}

\* C7: the owner of a Recipe is the user who created it and no request
\* changes it, a PATCH or PUT whose body holds a user key included.
C7_OwnerNeverChanges ==
    [][/\ \A i \in DOMAIN recipes \cap DOMAIN recipes' :
             recipes'[i].user = recipes[i].user
       /\ \A i \in DOMAIN recipes' \ DOMAIN recipes :
             recipes'[i].user = response'.user]_vars

C7_Witness ==
    /\ response.pc = "done"
    /\ response.op = "patch"
    /\ response.status = 200
    /\ response.userField \in Users \ {response.user}
    /\ recipes[response.rid].user = response.user

\* C8: every Tag and every Ingredient attached to a Recipe is a row of its
\* table that the Recipe's owner owns.
C8_AttachedRowsAreTheOwners ==
    \A i \in DOMAIN recipes : \A kind \in Kinds : \A t \in recipes[i][kind] :
        /\ t \in DOMAIN Table(kind)
        /\ Table(kind)[t].user = recipes[i].user

C8_Witness ==
    \E i, j \in DOMAIN recipes :
        /\ recipes[i].user # recipes[j].user
        /\ \E t \in recipes[i].tags, v \in recipes[j].tags :
              tags[t].name = tags[v].name

ListKind(op) == IF op = "tag_list" THEN "tags" ELSE "ingredients"

\* The rows of a kind attached to at least one Recipe of the user.
Assigned(kind, user) ==
    {t \in DOMAIN Table(kind) :
        \E i \in DOMAIN recipes :
            recipes[i].user = user /\ t \in recipes[i][kind]}

\* C9: a list of Tags (Ingredients) with assigned_only holds only rows that
\* are attached to at least one Recipe of the caller.
C9_AssignedOnlyHoldsAttachedRows ==
    (/\ response.pc = "done"
     /\ response.op \in {"tag_list", "ingredient_list"}
     /\ response.assigned)
    => Range(response.list)
           \subseteq Assigned(ListKind(response.op), response.user)

\* C10: a list of Tags (Ingredients) with assigned_only holds no row twice,
\* and a row attached to Recipes of the caller is in it exactly once.
C10_AssignedOnlyHoldsNoRowTwice ==
    (/\ response.pc = "done"
     /\ response.op \in {"tag_list", "ingredient_list"}
     /\ response.assigned)
    => /\ \A k, l \in 1..Len(response.list) :
             k # l => response.list[k] # response.list[l]
       /\ \A t \in Assigned(ListKind(response.op), response.user) :
             Cardinality({k \in 1..Len(response.list) :
                             response.list[k] = t}) = 1

C10_Witness ==
    /\ response.pc = "done"
    /\ response.op = "tag_list"
    /\ response.assigned
    /\ \E t \in Range(response.list) :
          Cardinality({i \in DOMAIN recipes :
                          /\ recipes[i].user = response.user
                          /\ t \in recipes[i].tags}) = 2

\* C11: a DELETE of a Recipe by its owner is answered 204 and removes that
\* Recipe row (with its tag and ingredient sets) and nothing else: the Tag
\* and Ingredient tables and every other Recipe are as they were.
C11_DeleteRemovesTheRecipeOnly ==
    [][LET q == response'
       IN (/\ q.pc = "done"
           /\ q.op = "delete"
           /\ q.rid \in DOMAIN recipes
           /\ recipes[q.rid].user = q.user)
          => /\ q.status = 204
             /\ recipes' = Drop(recipes, q.rid)
             /\ tags' = tags
             /\ ingredients' = ingredients]_vars

C11_Witness ==
    /\ response.pc = "done"
    /\ response.op = "delete"
    /\ response.status = 204
    /\ response.rid \notin DOMAIN recipes
    /\ \E t \in DOMAIN tags :
          /\ tags[t].user = response.user
          /\ \A i \in DOMAIN recipes : t \notin recipes[i].tags
    /\ \E i \in DOMAIN recipes :
          recipes[i].user = response.user /\ recipes[i].tags # {}

\* C12: a create that passes validation is answered 201 with a new Recipe
\* owned by the caller whose tag set is exactly the caller's rows of the
\* names in the tags list, one row for each name; the set is empty when the
\* key is absent or the list is empty.  The same for ingredients.
C12_CreateAttachesTheResolvedRows ==
    [][LET q == response'
       IN (q.pc = "done" /\ q.op = "create" /\ q.status \notin {400, 401})
          => /\ q.status = 201
             /\ q.inst \in DOMAIN recipes' \ DOMAIN recipes
             /\ recipes'[q.inst].user = q.user
             /\ \A kind \in Kinds :
                   LET names == IF q[kind].present
                                THEN Range(q[kind].value) ELSE {}
                       named == {i \in DOMAIN Table(kind)' :
                                    /\ Table(kind)'[i].user = q.user
                                    /\ Table(kind)'[i].name \in names}
                   IN /\ recipes'[q.inst][kind] = named
                      /\ q.body[kind] = named
                      /\ Cardinality(named) = Cardinality(names)]_vars

C12_Witness ==
    /\ response.pc = "done"
    /\ response.op = "create"
    /\ response.status = 201
    /\ response.tags = [present |-> TRUE, value |-> <<1, 2>>]
    /\ ~response.ingredients.present
    /\ Cardinality(recipes[response.inst].tags) = 2
    /\ recipes[response.inst].ingredients = {}
    /\ recipes[response.inst].user = response.user

\* C14: a list of Tags (Ingredients) without assigned_only holds exactly the
\* rows the caller owns, each once, the greater name first.
C14_ListHoldsTheCallersRowsByNameDescending ==
    (/\ response.pc = "done"
     /\ response.op \in {"tag_list", "ingredient_list"}
     /\ response.status = 200
     /\ ~response.assigned)
    => LET table == Table(ListKind(response.op))
           l == response.list
       IN /\ Range(l) = {i \in DOMAIN table : table[i].user = response.user}
          /\ Len(l) = Cardinality(Range(l))
          /\ \A k \in 1..(Len(l) - 1) : table[l[k]].name >= table[l[k + 1]].name

C14_Witness ==
    /\ response.pc = "done"
    /\ response.op = "tag_list"
    /\ response.status = 200
    /\ ~response.assigned
    /\ Len(response.list) = 2
    /\ tags[response.list[1]].name > tags[response.list[2]].name
    /\ response.list[1] > response.list[2]

\* C19: when a recipe create or update of user A names a Tag (Ingredient)
\* that A does not own and another user B owns, a new row owned by A is
\* inserted and attached to the Recipe, and every row of B and every Recipe
\* of B, its tag and ingredient sets included, is as it was.
C19_ResolutionIsScopedToTheCaller ==
    [][LET q == response'
       IN (/\ q.pc = "done"
           /\ q.op \in RecipeWrites
           /\ q.status \notin {400, 401, 404})
          => \A kind \in Kinds : \A n \in Range(q[kind].value) :
                (/\ Rows(Table(kind), q.user, n) = {}
                 /\ \E i \in DOMAIN Table(kind) : Table(kind)[i].name = n)
                => LET new == Rows(Table(kind)', q.user, n)
                   IN /\ q.status \in {200, 201}
                      /\ Cardinality(new) = 1
                      /\ new \cap DOMAIN Table(kind) = {}
                      /\ new \subseteq recipes'[q.inst][kind]
                      /\ \A i \in DOMAIN Table(kind) :
                            /\ i \in DOMAIN Table(kind)'
                            /\ Table(kind)'[i] = Table(kind)[i]
                      /\ \A x \in DOMAIN recipes :
                            recipes[x].user # q.user
                            => /\ x \in DOMAIN recipes'
                               /\ recipes'[x] = recipes[x]]_vars

C19_Witness ==
    /\ response.pc = "done"
    /\ response.op = "patch"
    /\ response.status = 200
    /\ \E n \in Range(response.tags.value) :
       \E a \in Rows(tags, response.user, n) :
       \E b \in DOMAIN tags :
          /\ tags[b].name = n
          /\ tags[b].user # response.user
          /\ b < a
          /\ a \in recipes[response.rid].tags
          /\ \E x \in DOMAIN recipes :
                recipes[x].user = tags[b].user /\ recipes[x].tags = {b}

AttrKind(op) ==
    IF op \in {"tag_update", "tag_delete"} THEN "tags" ELSE "ingredients"

AttrWrites ==
    {"tag_update", "tag_delete", "ingredient_update", "ingredient_delete"}

\* C13: a PATCH (rename) or DELETE of a Tag or Ingredient by a user who does
\* not own it is answered 404 and leaves the tables and every Recipe's sets
\* as they were; and whenever a row is renamed or removed, the request was
\* a PATCH or DELETE of that row by its owner.
C13_OtherUsersTagIsNotFound ==
    [][LET q == response'
       IN /\ (/\ q.pc = "done"
              /\ q.op \in AttrWrites
              /\ q.user \in Users
              /\ q.rid \in DOMAIN Table(AttrKind(q.op))
              /\ Table(AttrKind(q.op))[q.rid].user # q.user)
             => /\ q.status = 404
                /\ recipes' = recipes
                /\ tags' = tags
                /\ ingredients' = ingredients
          /\ \A kind \in Kinds : \A i \in DOMAIN Table(kind) :
                (i \notin DOMAIN Table(kind)' \/ Table(kind)'[i] # Table(kind)[i])
                => /\ q.op \in AttrWrites
                   /\ AttrKind(q.op) = kind
                   /\ q.rid = i
                   /\ q.user = Table(kind)[i].user]_vars

C13_Witness ==
    /\ response.pc = "done"
    /\ response.op = "tag_update"
    /\ response.status = 404
    /\ response.rid \in DOMAIN tags
    /\ tags[response.rid].user \in Users \ {response.user}
    /\ \E i \in DOMAIN recipes : response.rid \in recipes[i].tags

\* C15: a list of Recipes holds exactly the Recipes the caller owns, each
\* once, the greater identifier first; and a Recipe that is created gets an
\* identifier greater than that of every Recipe there is, so that the later
\* Recipe comes first.
C15_ListHoldsTheCallersRecipesLatestFirst ==
    [][LET q == response'
       IN /\ (q.pc = "done" /\ q.op = "list" /\ q.status = 200)
             => /\ Range(q.list) = {i \in DOMAIN recipes' :
                                       recipes'[i].user = q.user}
                /\ Len(q.list) = Cardinality(Range(q.list))
                /\ \A k \in 1..(Len(q.list) - 1) : q.list[k] > q.list[k + 1]
          /\ (q.pc = "done" /\ q.op = "create" /\ q.status = 201)
             => \A i \in DOMAIN recipes : q.inst > i]_vars

C15_Witness ==
    /\ response.pc = "done"
    /\ response.op = "list"
    /\ response.status = 200
    /\ Len(response.list) = 2
    /\ recipes[response.list[1]].title # recipes[response.list[2]].title

\* C16: a request without a valid credential, to any recipe, tag or
\* ingredient endpoint, is answered 401 with no data and leaves the Recipe,
\* Tag and Ingredient tables as they were.
C16_NoCredentialIsUnauthorized ==
    [][LET q == response'
       IN (q.pc = "done" /\ q.user \notin Users)
          => /\ q.status = 401
             /\ q.body = NoBody
             /\ q.list = <<>>
             /\ recipes' = recipes
             /\ tags' = tags
             /\ ingredients' = ingredients
             /\ seq' = seq]_vars

C16_Witness ==
    /\ response.pc = "done"
    /\ response.op = "delete"
    /\ response.status = 401
    /\ response.rid \in DOMAIN recipes
    /\ recipes[response.rid].tags # {}

C17_EmptyEmailCreatesNoUser ==
    [][LET q == response'
       IN (/\ q.pc = "done"
           /\ q.op \in {"register", "create_user"}
           /\ q.email = NoEmail)
          => /\ q.op = "register" => q.status = 400
             /\ q.op = "create_user" => q.raised = "ValueError"
             /\ user_objects' = user_objects]_vars

C17_Witness ==
    /\ response.pc = "done"
    /\ response.op = "create_user"
    /\ response.email = NoEmail
    /\ response.raised = "ValueError"
    /\ user_objects # NoUsers

(***************************************************************************)
(* Properties of requests served at the same time (ConcSpec).              *)
(***************************************************************************)
Answered(s) == reqs[s].pc = "done"

C4_FailedWriteLeavesNothing ==
    \A s \in Slots :
        (/\ Answered(s)
         /\ reqs[s].op \in RecipeWrites
         /\ reqs[s].status = 500)
        => /\ reqs[s].op = "create" => reqs[s].inst \notin DOMAIN recipes
           /\ \A m \in reqs[s].made : m[2] \notin DOMAIN Table(m[1])

====
